---- MODULE Spec2Model ----
(***************************************************************************)
(* Model of IEC62056_21.py: the client side of an IEC 62056-21 meter       *)
(* read-out over a serial line (sign-on, identification, handshake, data   *)
(* block, dataset parsing).  Bytes are their integer codes; the byte       *)
(* stream of the meter is the sequence rx, in which the item TO stands for *)
(* one ser.read() that returns nothing (the read timeout elapsed); once rx *)
(* is used up every read returns nothing.  Durations are exact rationals   *)
(* <<numerator, denominator>> in seconds.                                  *)
(***************************************************************************)
EXTENDS Integers, Sequences, FiniteSets, TLC

VARIABLES
    pc,                      \* where read() and its generators stand
    ser,                     \* self.ser: "Serial", or "None" once close() ran
    baudrate, bytesize,      \* self.ser.baudrate, self.ser.bytesize
    ser_is_blocking,         \* self.ser_is_blocking
    rx0, rx,                 \* what the meter sends in all, and what is left of it
    wr,                      \* how long each coming write with its flush takes
    events,                  \* what read() did to the channel and the clock, in order
    identification_message,  \* the decoded identification
    b, dataline,             \* _read_data_message: last byte read, line yielded
    records,                 \* the records the caller received
    error,                   \* "none", or the exception that ended read()
    expected_delay,          \* expected_delay of the last write
    calls,                   \* the read() calls begun on this engine
    waiting                  \* the locals of the sequences the caller holds
                             \* beside the one above, each at its yield

vars == <<pc, ser, baudrate, bytesize, ser_is_blocking, rx0, rx, wr, events,
          identification_message, b, dataline, records, error, expected_delay,
          calls, waiting>>

----------------------------------------------------------------------------
(* Bytes *)

Ord(c) ==
    CASE c = "\n" -> 10 [] c = "\r" -> 13 [] c = " " -> 32
      [] c = "!" -> 33 [] c = "(" -> 40 [] c = ")" -> 41 [] c = "*" -> 42
      [] c = "+" -> 43 [] c = "-" -> 45 [] c = "." -> 46 [] c = "/" -> 47
      [] c = "0" -> 48 [] c = "1" -> 49 [] c = "2" -> 50 [] c = "3" -> 51
      [] c = "4" -> 52 [] c = "5" -> 53 [] c = "6" -> 54 [] c = "7" -> 55
      [] c = "8" -> 56 [] c = "9" -> 57 [] c = ":" -> 58 [] c = "?" -> 63
      [] c = "@" -> 64
      [] c = "A" -> 65 [] c = "B" -> 66 [] c = "C" -> 67 [] c = "D" -> 68
      [] c = "E" -> 69 [] c = "F" -> 70 [] c = "G" -> 71 [] c = "H" -> 72
      [] c = "I" -> 73 [] c = "J" -> 74 [] c = "W" -> 87 [] c = "X" -> 88
      [] c = "Y" -> 89 [] c = "Z" -> 90 [] c = "[" -> 91 [] c = "\\" -> 92
      [] c = "a" -> 97 [] c = "b" -> 98 [] c = "c" -> 99 [] c = "d" -> 100
      [] c = "e" -> 101 [] c = "f" -> 102 [] c = "g" -> 103
      [] c = "h" -> 104 [] c = "k" -> 107 [] c = "x" -> 120

Bytes(s) == [i \in 1..Len(s) |-> Ord(s[i])]

ctrl_StartChar == Ord("/")
ctrl_EOF == 33
ctrl_CTX == 2
ctrl_ETX == 3
ctrl_ACK == 6
CR == 13
LF == 10
eom == <<CR, LF>>

(* A read that returns nothing. *)
TO == -1

min_reaction_time == <<1, 5>>

IsDigit(x) == x >= Ord("0") /\ x <= Ord("9")

----------------------------------------------------------------------------
(* Rational durations *)

RatLT(x, y) == x[1] * y[2] < y[1] * x[2]
RatEq(x, y) == x[1] * y[2] = y[1] * x[2]
RatSub(x, y) == <<x[1] * y[2] - y[1] * x[2], x[2] * y[2]>>

(* len(data)*1.0 / (baudrate / (bytesize + 3)): the inner division is of   *)
(* two integers, so it floors.                                             *)
ExpectedDelay(n, baud, bsize) == <<n, baud \div (bsize + 3)>>

----------------------------------------------------------------------------
(* The channel: ser.read() of one byte *)

(* What the read of item i of the stream s returns: one byte, or nothing   *)
(* at a timeout and past the end of what the meter sends.                  *)
SerReadAt(s, i) ==
    IF i > Len(s) THEN <<>> ELSE IF s[i] = TO THEN <<>> ELSE <<s[i]>>

SerRead(s) == [b |-> SerReadAt(s, 1), rest |-> SubSeq(s, 2, Len(s))]

(* _read_dataline: the loop of lines 202-216, with the buffer msg and the  *)
(* match state m (0-based index into eom) before the read of item i of s.  *)
(* The function has no raise: error is "none" however the loop ends.       *)

(* The bytes read before a timeout dropped instead of returned. *)
RECURSIVE ReadDatalineLoopDropPartial(_, _, _, _)
ReadDatalineLoopDropPartial(msg, m, s, i) ==
    IF Len(SerReadAt(s, i)) = 0
    THEN [msg |-> <<>>, rest |-> SubSeq(s, i + 1, Len(s)), error |-> "none"]
    ELSE IF (IF eom[m + 1] = s[i] THEN m + 1 ELSE 0) = Len(eom)
    THEN [msg |-> SubSeq(msg, 1, Len(msg) - 1),
          rest |-> SubSeq(s, i + 1, Len(s)), error |-> "none"]
    ELSE ReadDatalineLoopDropPartial(Append(msg, s[i]),
                          IF eom[m + 1] = s[i] THEN m + 1 ELSE 0, s, i + 1)

RECURSIVE ReadDatalineLoop(_, _, _, _)
ReadDatalineLoop(msg, m, s, i) ==
    IF Len(SerReadAt(s, i)) = 0
    THEN [msg |-> msg, rest |-> SubSeq(s, i + 1, Len(s)), error |-> "none"]
    ELSE IF (IF eom[m + 1] = s[i] THEN m + 1 ELSE 0) = Len(eom)
    THEN [msg |-> SubSeq(msg, 1, Len(msg) - 1),
          rest |-> SubSeq(s, i + 1, Len(s)), error |-> "none"]
    ELSE ReadDatalineLoop(Append(msg, s[i]),
                          IF eom[m + 1] = s[i] THEN m + 1 ELSE 0, s, i + 1)

ReadDataline(msg, s) == ReadDatalineLoop(msg, 0, s, 1)

----------------------------------------------------------------------------
(* _read_identification_message *)

(* The table with the entry 4800 left out of its first half. *)
baudrateselectionTypo ==
    <<300, 600, 1200, 2400, 9600, 19200, 0,
      0, 0, 0,
      600, 1200, 2400, 4800, 9600, 19200>>

baudrateselection ==
    <<300, 600, 1200, 2400, 4800, 9600, 19200,
      0, 0, 0,
      600, 1200, 2400, 4800, 9600, 19200>>

(* int(c, 16) of a one-character string: the digit's value, or -1 where    *)
(* int() raises ValueError.                                                *)
HexValue(c) ==
    IF IsDigit(c) THEN c - Ord("0")
    ELSE IF c >= Ord("A") /\ c <= Ord("F") THEN c - Ord("A") + 10
    ELSE IF c >= Ord("a") /\ c <= Ord("f") THEN c - Ord("a") + 10
    ELSE -1

(* msg[5] == '\\' compares an item of a bytearray, an int, with a str:     *)
(* the two are never equal, whatever the byte is.                          *)
IsEscape(x) == FALSE

(* bytes.decode('ascii') succeeds exactly on bytes below 128. *)
IsAscii(s) == \A i \in 1..Len(s) : s[i] < 128

(* The lower bounds of the two ranges taken as part of them. *)
ProtocolModeInclusive(c, esc) ==
    LET m1 == IF c >= Ord("A") /\ c <= Ord("I") THEN "B" ELSE "A"
    IN  IF c >= Ord("0") /\ c <= Ord("9")
        THEN (IF esc THEN "E" ELSE "C")
        ELSE m1

ProtocolMode(c, esc) ==
    LET m1 == IF c > Ord("A") /\ c <= Ord("I") THEN "B" ELSE "A"
    IN  IF c > Ord("0") /\ c <= Ord("9")
        THEN (IF esc THEN "E" ELSE "C")
        ELSE m1

NoIdentification ==
    [manufacturers_identification |-> <<>>, baudrate_identification |-> -1,
     identification |-> <<>>, protocol_mode |-> "", baudrate |-> -1]

(* Lines 115-142: the decoding of a line that passed the checks of lines   *)
(* 99-112.  error is "none" or the exception raised.                       *)
DecodeIdentification(msg) ==
    LET manufacturers_identification == SubSeq(msg, 2, 4)
        baudrate_identification == msg[5]
        esc == IsEscape(msg[6])
        identification == IF esc THEN SubSeq(msg, 8, Len(msg) - 2)
                          ELSE SubSeq(msg, 6, Len(msg) - 2)
        hv == HexValue(baudrate_identification)
    IN  IF ~IsAscii(manufacturers_identification)
        THEN [error |-> "UnicodeDecodeError", result |-> NoIdentification]
        ELSE IF esc /\ Len(msg) < 8
        THEN [error |-> "InvalidMessageError", result |-> NoIdentification]
        ELSE IF ~IsAscii(identification)
        THEN [error |-> "UnicodeDecodeError", result |-> NoIdentification]
        ELSE IF hv < 0
        THEN [error |-> "ValueError", result |-> NoIdentification]
        ELSE [error |-> "none",
              result |->
                [manufacturers_identification |-> manufacturers_identification,
                 baudrate_identification |-> baudrate_identification,
                 identification |-> identification,
                 protocol_mode |-> ProtocolMode(baudrate_identification, esc),
                 baudrate |-> baudrateselection[hv + 1]]]

(* Lines 103-107: read until a read returns nothing. *)
RECURSIVE DrainLoop(_, _, _)
DrainLoop(msg, s, i) ==
    IF Len(SerReadAt(s, i)) = 0
    THEN [msg |-> msg, rest |-> SubSeq(s, i + 1, Len(s))]
    ELSE DrainLoop(Append(msg, s[i]), s, i + 1)

Drain(msg, s) == DrainLoop(msg, s, 1)

(* The length of the line checked before its start character. *)
ReadIdentificationMessageLengthFirst(s) ==
    LET l == ReadDataline(<<>>, s) IN
    IF Len(l.msg) = 0
    THEN [error |-> "TimeoutException", result |-> NoIdentification,
          line |-> l.msg, msg |-> l.msg, rest |-> l.rest,
          drained |-> FALSE]
    ELSE IF Len(l.msg) < 6
    THEN [error |-> "InvalidMessageError", result |-> NoIdentification,
          line |-> l.msg, msg |-> l.msg, rest |-> l.rest,
          drained |-> FALSE]
    ELSE IF l.msg[1] # ctrl_StartChar
    THEN LET d == Drain(l.msg, l.rest) IN
         [error |-> "InvalidMessageError", result |-> NoIdentification,
          line |-> l.msg, msg |-> d.msg, rest |-> d.rest,
          drained |-> TRUE]
    ELSE LET d == DecodeIdentification(l.msg) IN
         [error |-> d.error, result |-> d.result,
          line |-> l.msg, msg |-> l.msg, rest |-> l.rest,
          drained |-> FALSE]

(* The whole function on the stream s: line is the line read, msg the      *)
(* buffer when the function ends, rest what the channel still holds,       *)
(* drained whether the loop of lines 103-107 ran.                          *)
ReadIdentificationMessage(s) ==
    LET l == ReadDataline(<<>>, s) IN
    IF Len(l.msg) = 0
    THEN [error |-> "TimeoutException", result |-> NoIdentification,
          line |-> l.msg, msg |-> l.msg, rest |-> l.rest,
          drained |-> FALSE]
    ELSE IF l.msg[1] # ctrl_StartChar
    THEN LET d == Drain(l.msg, l.rest) IN
         [error |-> "InvalidMessageError", result |-> NoIdentification,
          line |-> l.msg, msg |-> d.msg, rest |-> d.rest,
          drained |-> TRUE]
    ELSE IF Len(l.msg) < 6
    THEN [error |-> "InvalidMessageError", result |-> NoIdentification,
          line |-> l.msg, msg |-> l.msg, rest |-> l.rest,
          drained |-> FALSE]
    ELSE LET d == DecodeIdentification(l.msg) IN
         [error |-> d.error, result |-> d.result,
          line |-> l.msg, msg |-> l.msg, rest |-> l.rest,
          drained |-> FALSE]

----------------------------------------------------------------------------
(* dataset_regex and _read_dataset_structure *)

(* The class [^\(\)/!] of ID and Unit, and the class \d. *)
IDChar == (0..255) \ {Ord("("), Ord(")"), Ord("/"), Ord("!")}

DigitChar == {x \in 0..255 : IsDigit(x)}

(* The index of the first item of line, from p on, that is not in the      *)
(* class cls; Len(line) + 1 when there is none.                            *)
RunEnd(line, p, cls) ==
    CHOOSE q \in p..(Len(line) + 1) :
        /\ (q = Len(line) + 1 \/ line[q] \notin cls)
        /\ \A i \in p..(q - 1) : line[i] \in cls

(* The dot of the pattern matches every byte but a newline. *)
AnyChar(x) == x # LF

(* The value of a group that did not take part in the match. *)
None == <<-1>>

NoMatch == [matched |-> FALSE, ID |-> <<>>, Value |-> <<>>, Unit |-> None,
            end |-> 0]

(* (\*(?P<Unit>[^\(\)/!]+))?\) at index r: the optional group is tried     *)
(* first; the index after the closing bracket, 0 when there is no match.   *)
TailMatch(line, r) ==
    IF r > Len(line) THEN [end |-> 0, Unit |-> None]
    ELSE IF line[r] = Ord("*")
    THEN LET u == RunEnd(line, r + 1, IDChar) IN
         IF u > r + 1 /\ u <= Len(line) /\ line[u] = Ord(")")
         THEN [end |-> u + 1, Unit |-> SubSeq(line, r + 1, u - 1)]
         ELSE [end |-> 0, Unit |-> None]
    ELSE IF line[r] = Ord(")") THEN [end |-> r + 1, Unit |-> None]
    ELSE [end |-> 0, Unit |-> None]

(* j groups (.\d) from index q on. *)
PairsAt(line, q, j) ==
    \A i \in 0..(j - 1) :
        /\ q + 2 * i + 1 <= Len(line)
        /\ AnyChar(line[q + 2 * i])
        /\ IsDigit(line[q + 2 * i + 1])

(* The groups of a match whose ID ends before index p0, whose Value runs   *)
(* from p0 + 1 to r - 1 and whose rest is tl.                              *)
MatchGroups(line, p0, r, tl) ==
    [matched |-> TRUE, ID |-> SubSeq(line, 1, p0 - 1),
     Value |-> SubSeq(line, p0 + 1, r - 1), Unit |-> tl.Unit, end |-> tl.end]

(* \d+(.\d)+ and the rest of the pattern from index v on: \d+ and (.\d)+   *)
(* are greedy, so the match is the one with the most digits k and then the *)
(* most groups j for which the rest of the pattern matches.                *)
MatchValue(line, v, cands) ==
    IF cands = {} THEN NoMatch
    ELSE LET best == CHOOSE kj \in cands : \A o \in cands :
                         \/ o[1] < kj[1]
                         \/ (o[1] = kj[1] /\ o[2] <= kj[2])
         IN MatchGroups(line, v - 1, v + best[1] + 2 * best[2],
                        TailMatch(line, v + best[1] + 2 * best[2]))

ValueCandidates(line, v) ==
    {kj \in (1..(RunEnd(line, v, DigitChar) - v)) \X (1..Len(line)) :
        /\ PairsAt(line, v + kj[1], kj[2])
        /\ TailMatch(line, v + kj[1] + 2 * kj[2]).end > 0}

(* The pattern from the opening bracket expected at index p0 on. *)
MatchFrom(line, p0) ==
    IF p0 > Len(line) THEN NoMatch
    ELSE IF line[p0] # Ord("(") THEN NoMatch
    ELSE MatchValue(line, p0 + 1, ValueCandidates(line, p0 + 1))

(* dataset_regex.match(line): anchored at the start of the line only.  ID  *)
(* runs up to the first byte outside its class.                            *)
DatasetMatch(line) == MatchFrom(line, RunEnd(line, 1, IDChar))

(* The number written by the first n digits of s. *)
RECURSIVE DigitsValueTo(_, _)
DigitsValueTo(s, n) ==
    IF n = 0 THEN 0 ELSE 10 * DigitsValueTo(s, n - 1) + (s[n] - Ord("0"))

DigitsValue(s) == DigitsValueTo(s, Len(s))

NotDecimal == [ok |-> FALSE, coef |-> 0, exp |-> 0]

(* The exponent digits of s from index e0 to the end; the literal has      *)
(* nfrac digits after the point.                                           *)
DecimalExponent(s, coef, nfrac, e0, negative) ==
    IF e0 > Len(s) THEN NotDecimal
    ELSE IF RunEnd(s, e0, DigitChar) # Len(s) + 1 THEN NotDecimal
    ELSE [ok |-> TRUE, coef |-> coef,
          exp |-> (IF negative THEN 0 - DigitsValue(SubSeq(s, e0, Len(s)))
                   ELSE DigitsValue(SubSeq(s, e0, Len(s)))) - nfrac]

(* What follows the digits of the literal, from index p on: nothing, or an *)
(* exponent.                                                               *)
DecimalRest(s, coef, nfrac, p) ==
    IF p = Len(s) + 1 THEN [ok |-> TRUE, coef |-> coef, exp |-> 0 - nfrac]
    ELSE IF s[p] \notin {Ord("e"), Ord("E")} THEN NotDecimal
    ELSE IF p + 1 <= Len(s) /\ s[p + 1] \in {Ord("+"), Ord("-")}
    THEN DecimalExponent(s, coef, nfrac, p + 2, s[p + 1] = Ord("-"))
    ELSE DecimalExponent(s, coef, nfrac, p + 1, FALSE)

(* The literal whose digits before the point end before index i1 and whose *)
(* digits after it, if any, end before index f1.                           *)
DecimalDigits(s, i1, f1) ==
    IF (i1 - 1) + (IF f1 > i1 THEN f1 - i1 - 1 ELSE 0) = 0 THEN NotDecimal
    ELSE DecimalRest(s,
             DigitsValue(SubSeq(s, 1, i1 - 1)
                         \o (IF f1 > i1 THEN SubSeq(s, i1 + 1, f1 - 1) ELSE <<>>)),
             IF f1 > i1 THEN f1 - i1 - 1 ELSE 0,
             f1)

DecimalPoint(s, i1) ==
    IF i1 <= Len(s) /\ s[i1] = Ord(".")
    THEN DecimalDigits(s, i1, RunEnd(s, i1 + 1, DigitChar))
    ELSE DecimalDigits(s, i1, i1)

(* Decimal(str): digits, an optional point and digits, an optional         *)
(* exponent; the value keeps the coefficient and the exponent, so the      *)
(* precision written.  ok is FALSE where Decimal raises InvalidOperation.  *)
DecimalParse(s) == DecimalPoint(s, RunEnd(s, 1, DigitChar))

NoDataSet == [id |-> <<>>, value |-> [coef |-> 0, exp |-> 0], unit |-> None]

(* Lines 178-187. *)
DataSetMessage(result, d) ==
    IF ~d.ok THEN [error |-> "InvalidOperation", message |-> NoDataSet]
    ELSE [error |-> "none",
          message |-> [id |-> result.ID,
                       value |-> [coef |-> d.coef, exp |-> d.exp],
                       unit |-> result.Unit]]

MatchResult(result) ==
    IF ~result.matched
    THEN [error |-> "InvalidMessageError", message |-> NoDataSet]
    ELSE DataSetMessage(result, DecimalParse(result.Value))

ReadDatasetStructure(dataset) == MatchResult(DatasetMatch(dataset))

----------------------------------------------------------------------------
(* The session: read() and the functions it calls *)

Event(op, val) == [op |-> op, val |-> val]

msg_signon == Bytes(<<"/", "?", "!", "\r", "\n">>)

(* The reads of a whole call as events, one per ser.read(). *)
ReadEvents(bs) == [i \in 1..Len(bs) |-> Event("read", bs[i])]

(* The locals of the sequence read() is running, with the log of what it  *)
(* did and the writes and the bytes of its session, and their assignment.  *)
Gen ==
    [pc |-> pc, rx0 |-> rx0, wr |-> wr, events |-> events,
     identification_message |-> identification_message, b |-> b,
     dataline |-> dataline, records |-> records, error |-> error,
     expected_delay |-> expected_delay]

SetGen(g) ==
    /\ pc' = g.pc
    /\ rx0' = g.rx0
    /\ wr' = g.wr
    /\ events' = g.events
    /\ identification_message' = g.identification_message
    /\ b' = g.b
    /\ dataline' = g.dataline
    /\ records' = g.records
    /\ error' = g.error
    /\ expected_delay' = g.expected_delay

(* Lines 55-73 for the sequence with the locals g: the discovery baud      *)
(* rate, the sign-on request, the detection of a write that returns early. *)
(* With self.ser None line 55 raises AttributeError.  The session of the   *)
(* sequence has the bytes the channel holds when it begins.                *)
StartStep(g) ==
    IF ser = "None"
    THEN [gen |-> [g EXCEPT !.pc = "failed", !.error = "AttributeError"],
          baudrate |-> baudrate,
          ser_is_blocking |-> ser_is_blocking]
    ELSE LET expected == ExpectedDelay(Len(msg_signon), 300, bytesize)
             actual_delay == Head(g.wr)
             early == RatLT(actual_delay, expected)
         IN  [gen |-> [g EXCEPT
                         !.pc = "identification",
                         !.rx0 = rx,
                         !.wr = Tail(g.wr),
                         !.expected_delay = expected,
                         !.events = g.events
                            \o <<Event("baud", <<300>>),
                                 Event("write", msg_signon)>>
                            \o (IF early
                                THEN <<Event("sleep",
                                             RatSub(expected, actual_delay))>>
                                ELSE <<>>)],
              baudrate |-> 300,
              ser_is_blocking |-> (IF early THEN FALSE ELSE ser_is_blocking)]

ReadStart ==
    /\ pc = "start"
    /\ ser = "Serial" => wr # <<>>
    /\ LET s == StartStep(Gen) IN
       /\ SetGen(s.gen)
       /\ baudrate' = s.baudrate
       /\ ser_is_blocking' = s.ser_is_blocking
    /\ UNCHANGED <<calls, waiting, ser, bytesize, rx>>

(* Line 75: _read_identification_message. *)
ReadIdentification ==
    /\ pc = "identification"
    /\ LET r == ReadIdentificationMessage(rx) IN
       /\ rx' = r.rest
       /\ events' = events \o <<Event("readline", r.line)>>
              \o (IF r.drained
                  THEN <<Event("drain", SubSeq(r.msg, Len(r.line) + 1, Len(r.msg)))>>
                  ELSE <<>>)
       /\ identification_message' = r.result
       /\ error' = r.error
       /\ pc' = IF r.error = "none" THEN "handshake" ELSE "failed"
    /\ UNCHANGED <<calls, waiting, ser, baudrate, bytesize, ser_is_blocking, rx0, wr, b, dataline,
                   records, expected_delay>>

(* _write_blocking, lines 83-94, as the events it adds: the write, and the *)
(* sleep of the rest of the expected time on a channel seen not to block.  *)
WriteBlocking(data, expected, elapsed, blocking) ==
    LET delay == RatSub(expected, elapsed) IN
    <<Event("write", data)>>
    \o (IF ~blocking /\ delay[1] > 0 THEN <<Event("sleep", delay)>> ELSE <<>>)

(* The ack with the baud-id of 9600 baud, whatever the meter sent. *)
HandshakeDataFixed(im) ==
    <<ctrl_ACK, Ord("0"), Ord("5"), Ord("0"), CR, LF>>

(* Line 190. *)
HandshakeData(im) ==
    <<ctrl_ACK, Ord("0"), im.baudrate_identification, Ord("0"), CR, LF>>

(* The baud rate switched before the ack is written and the sleep taken. *)
WriteHandshakeSwitchFirst ==
    /\ pc = "handshake"
    /\ wr # <<>>
    /\ LET data == HandshakeData(identification_message)
           expected == ExpectedDelay(Len(data), identification_message.baudrate
                                                  + bytesize + 3, bytesize)
       IN  /\ expected_delay' = expected
           /\ events' = events
                  \o <<Event("baud", <<identification_message.baudrate>>)>>
                  \o WriteBlocking(data, expected, Head(wr), ser_is_blocking)
                  \o <<Event("sleep", min_reaction_time)>>
    /\ baudrate' = identification_message.baudrate
    /\ wr' = Tail(wr)
    /\ pc' = "data_start"
    /\ UNCHANGED <<calls, waiting, ser, bytesize, ser_is_blocking, rx0, rx, identification_message,
                   b, dataline, records, error>>

(* Line 78: _write_handshake, lines 189-193. *)
WriteHandshake ==
    /\ pc = "handshake"
    /\ wr # <<>>
    /\ LET data == HandshakeData(identification_message)
           expected == ExpectedDelay(Len(data), baudrate, bytesize)
       IN  /\ expected_delay' = expected
           /\ events' = events
                  \o WriteBlocking(data, expected, Head(wr), ser_is_blocking)
                  \o <<Event("sleep", min_reaction_time),
                       Event("baud", <<identification_message.baudrate>>)>>
    /\ baudrate' = identification_message.baudrate
    /\ wr' = Tail(wr)
    /\ pc' = "data_start"
    /\ UNCHANGED <<calls, waiting, ser, bytesize, ser_is_blocking, rx0, rx, identification_message,
                   b, dataline, records, error>>

(* A first byte that is not STX taken for the STX. *)
ReadDataStartLenient ==
    /\ pc = "data_start"
    /\ LET r1 == SerRead(rx)
           r2 == SerRead(r1.rest)
       IN  IF Len(r1.b) = 0
           THEN /\ error' = "TimeoutException" /\ pc' = "failed"
                /\ rx' = r1.rest /\ b' = r1.b
                /\ events' = events \o ReadEvents(<<r1.b>>)
           ELSE /\ error' = error /\ pc' = "data_test"
                /\ rx' = r2.rest /\ b' = r2.b
                /\ events' = events \o ReadEvents(<<r1.b, r2.b>>)
    /\ UNCHANGED <<calls, waiting, ser, baudrate, bytesize, ser_is_blocking, rx0, wr,
                   identification_message, dataline, records, expected_delay>>

(* _read_data_message up to the loop, lines 145-154. *)
ReadDataStart ==
    /\ pc = "data_start"
    /\ LET r1 == SerRead(rx)
           r2 == SerRead(r1.rest)
       IN  IF Len(r1.b) = 0
           THEN /\ error' = "TimeoutException" /\ pc' = "failed"
                /\ rx' = r1.rest /\ b' = r1.b
                /\ events' = events \o ReadEvents(<<r1.b>>)
           ELSE IF r1.b[1] # ctrl_CTX
           THEN /\ error' = "InvalidMessageError" /\ pc' = "failed"
                /\ rx' = r1.rest /\ b' = r1.b
                /\ events' = events \o ReadEvents(<<r1.b>>)
           ELSE /\ error' = error /\ pc' = "data_test"
                /\ rx' = r2.rest /\ b' = r2.b
                /\ events' = events \o ReadEvents(<<r1.b, r2.b>>)
    /\ UNCHANGED <<calls, waiting, ser, baudrate, bytesize, ser_is_blocking, rx0, wr,
                   identification_message, dataline, records, expected_delay>>

(* The loop test and the body up to the yield, lines 155-158. *)
DataTest ==
    /\ pc = "data_test"
    /\ IF b = <<ctrl_EOF>>
       THEN /\ pc' = "trailer"
            /\ UNCHANGED <<rx, dataline, events>>
       ELSE IF Len(b) > 0
       THEN LET l == ReadDataline(b, rx) IN
            /\ pc' = "yield"
            /\ dataline' = l.msg
            /\ rx' = l.rest
            /\ events' = events \o <<Event("readline", l.msg)>>
       ELSE /\ pc' = "data_poll"
            /\ UNCHANGED <<rx, dataline, events>>
    /\ UNCHANGED <<calls, waiting, ser, baudrate, bytesize, ser_is_blocking, rx0, wr,
                   identification_message, b, records, error, expected_delay>>

(* Line 81: the line is parsed and the record handed to the caller. *)
YieldDataset ==
    /\ pc = "yield"
    /\ LET r == ReadDatasetStructure(dataline) IN
       /\ events' = events \o <<Event("parse", dataline)>>
       /\ IF r.error = "none"
          THEN /\ records' = Append(records, r.message)
               /\ pc' = "data_poll"
               /\ error' = error
          ELSE /\ records' = records
               /\ pc' = "failed"
               /\ error' = r.error
    /\ UNCHANGED <<calls, waiting, ser, baudrate, bytesize, ser_is_blocking, rx0, rx, wr,
                   identification_message, b, dataline, expected_delay>>

(* Line 160 for the sequence with the locals g: the read at the end of the *)
(* loop body, which is also where a sequence goes on from its yield.  The  *)
(* log keeps one event for a run of polls that return nothing.  With       *)
(* self.ser None, as close() leaves it while the sequence waits at its     *)
(* yield, self.ser.read raises AttributeError.                             *)
PollStep(g) ==
    IF ser = "None"
    THEN [gen |-> [g EXCEPT !.pc = "failed", !.error = "AttributeError"],
          rest |-> rx]
    ELSE LET r == SerRead(rx) IN
         [gen |-> [g EXCEPT
                     !.pc = "data_test",
                     !.b = r.b,
                     !.events =
                        IF g.b = <<>> /\ r.b = <<>>
                           /\ g.events[Len(g.events)] = Event("read", <<>>)
                        THEN g.events
                        ELSE g.events \o ReadEvents(<<r.b>>)],
          rest |-> r.rest]

DataPoll ==
    /\ pc = "data_poll"
    /\ LET s == PollStep(Gen) IN
       /\ SetGen(s.gen)
       /\ rx' = s.rest
    /\ UNCHANGED <<calls, waiting, ser, baudrate, bytesize, ser_is_blocking>>

(* The block check character compared with an expected value. *)
ReadTrailerChecked(s) ==
    LET r1 == SerRead(s)
        r2 == SerRead(r1.rest)
        r3 == SerRead(r2.rest)
        r4 == SerRead(r3.rest)
    IN  IF Len(r3.b) = 0
        THEN [error |-> "IndexError", rest |-> r3.rest, b |-> r3.b,
              reads |-> <<r1.b, r2.b, r3.b>>]
        ELSE IF r3.b[1] # ctrl_ETX
        THEN [error |-> "InvalidMessageError", rest |-> r3.rest, b |-> r3.b,
              reads |-> <<r1.b, r2.b, r3.b>>]
        ELSE [error |-> IF r4.b = <<Ord("A")>> THEN "none"
                        ELSE "InvalidMessageError",
              rest |-> r4.rest, b |-> r4.b,
              reads |-> <<r1.b, r2.b, r3.b, r4.b>>]

(* Lines 162-170: three reads, the third one the ETX, and the block check  *)
(* character.  b[0] of a read that returned nothing raises IndexError.     *)
ReadTrailer(s) ==
    LET r1 == SerRead(s)
        r2 == SerRead(r1.rest)
        r3 == SerRead(r2.rest)
        r4 == SerRead(r3.rest)
    IN  IF Len(r3.b) = 0
        THEN [error |-> "IndexError", rest |-> r3.rest, b |-> r3.b,
              reads |-> <<r1.b, r2.b, r3.b>>]
        ELSE IF r3.b[1] # ctrl_ETX
        THEN [error |-> "InvalidMessageError", rest |-> r3.rest, b |-> r3.b,
              reads |-> <<r1.b, r2.b, r3.b>>]
        ELSE [error |-> "none", rest |-> r4.rest, b |-> r4.b,
              reads |-> <<r1.b, r2.b, r3.b, r4.b>>]

Trailer ==
    /\ pc = "trailer"
    /\ LET r == ReadTrailer(rx) IN
       /\ rx' = r.rest
       /\ b' = r.b
       /\ events' = events \o ReadEvents(r.reads)
       /\ error' = r.error
       /\ pc' = IF r.error = "none" THEN "done" ELSE "failed"
    /\ UNCHANGED <<calls, waiting, ser, baudrate, bytesize, ser_is_blocking, rx0, wr,
                   identification_message, dataline, records, expected_delay>>

----------------------------------------------------------------------------
(* The inputs: what the meter sends, how long the writes take, the data    *)
(* bits of the port.                                                       *)

MaxShort == 3
MaxTail == 5
MaxValueLen == 4
MaxLines == 2
MaxCalls == 2

SeqsUpTo(S, n) == UNION {[1..k -> S] : k \in 0..n}

RECURSIVE EncodeLines(_)
EncodeLines(ls) ==
    IF ls = <<>> THEN <<>> ELSE Head(ls) \o eom \o EncodeLines(Tail(ls))

(* The end of a data block: '!', CR LF, ETX and a block check character. *)
GoodTrailer == <<ctrl_EOF, CR, LF, ctrl_ETX, Ord("A")>>

EncodeBlock(ls) == <<ctrl_CTX>> \o EncodeLines(ls) \o GoodTrailer

GoodIdentification ==
    Bytes(<<"/", "X", "Y", "Z", "5", "A", "B", "C", "1", "2", "3">>) \o eom

DefaultLine == Bytes(<<"(", "1", ".", "5", ")">>)

DefaultBlock == EncodeBlock(<<DefaultLine>>)

(* Every stream of at most MaxShort items: silence, bare line ends, wrong  *)
(* start characters, lines too short.                                      *)
ShortStreams == SeqsUpTo({Ord("/"), Ord("A"), CR, LF, TO}, MaxShort)

(* Identification lines /XYZ<c><tail> for the baud-rate characters '/' to  *)
(* 'J', '`' to 'g' and the backslash, ended by CR LF, by a timeout or by   *)
(* CR CR LF, and followed by a data block.                                 *)
IdChars == (47..74) \cup (96..103) \cup {Ord("\\")}

IdTails ==
    { Bytes(<<"A">>),
      Bytes(<<"A", "B", "C", "1", "2", "3">>),
      Bytes(<<"\\", "2", "A", "B">>),
      Bytes(<<"\\", "2">>) }

IdentLines ==
    {Bytes(<<"/", "X", "Y", "Z">>) \o <<c>> \o tl : c \in IdChars, tl \in IdTails}

IdentStreams ==
    {l \o term \o DefaultBlock :
        l \in IdentLines, term \in {eom, <<TO>>, <<CR, CR, LF>>}}
    \cup {Bytes(<<"/", "A", "B", "1">>) \o eom,
          Bytes(<<"/", "X", "Y", "Z", "5">>) \o eom,
          Bytes(<<"X", "Y", "Z", "5", "A", "B">>) \o eom
              \o Bytes(<<"A", "B">>) \o <<TO>> \o Bytes(<<"C">>),
          Bytes(<<"X", "Y", "Z", "5", "A", "B">>) \o eom \o DefaultBlock,
          Bytes(<<"5", "/">>) \o <<TO>> \o Bytes(<<"A", "B">>)}

(* Dataset lines: ID, '(', every VALUE of at most MaxValueLen characters   *)
(* out of '0', '5', '.', 'e', an optional unit, ')', and what may follow.  *)
ParserLines ==
    {id \o <<Ord("(")>> \o v \o u \o <<Ord(")")>> \o x :
        id \in {<<>>, Bytes(<<"1", ".">>)},
        v \in SeqsUpTo({Ord("0"), Ord("5"), Ord("."), Ord("e")}, MaxValueLen),
        u \in {<<>>, Bytes(<<"*", "k">>), Bytes(<<"*">>)},
        x \in {<<>>, Bytes(<<"x">>)}}

BlockLines ==
    { Bytes(<<"1", ".", "8", ".", "0", "(", "0", "0", "1", "5", ".", "5", "5",
              "7", "*", "k", "W", "h", ")">>),
      Bytes(<<"1", ".", "8", ".", "0", "(", "1", "5", ".", "5", "5",
              "*", "k", "W", "h", ")">>),
      DefaultLine,
      Bytes(<<"(", "1", ".", "5", ".", "5", ")">>),
      Bytes(<<"B", "A", "D", "[", "[", "[">>),
      Bytes(<<"(", "1", ".", "5", "*", "k", ")", "x">>),
      <<>> }

(* After the STX, and after the STX and one line: every stream of at most  *)
(* MaxTail items out of '!', ETX, a timeout and 'A'.                       *)
Tails == SeqsUpTo({ctrl_EOF, ctrl_ETX, TO, Ord("A")}, MaxTail)

DataStreams ==
    {GoodIdentification \o blk :
        blk \in {EncodeBlock(ls) : ls \in SeqsUpTo(BlockLines, MaxLines)}
          \cup {EncodeBlock(<<l>>) : l \in ParserLines}
          \cup {<<ctrl_CTX>> \o pre \o tl :
                   pre \in {<<>>, DefaultLine \o eom}, tl \in Tails}
          \cup {<<>>, <<Ord("A")>>, <<TO, ctrl_CTX>>,
                <<ctrl_CTX, TO>> \o EncodeLines(<<DefaultLine>>) \o <<TO>>
                    \o GoodTrailer,
                <<ctrl_CTX>> \o DefaultLine \o <<TO>> \o GoodTrailer}}

(* A session that fails at the frame start and leaves a whole session in   *)
(* the channel for the next read().                                        *)
LeftoverStreams ==
    {GoodIdentification \o <<Ord("A")>> \o GoodIdentification \o DefaultBlock}

AllStreams ==
    ShortStreams \cup IdentStreams \cup DataStreams \cup LeftoverStreams

(* serial.FIVEBITS .. serial.EIGHTBITS *)
ByteSizes == 5..8

Durations == {<<0, 1>>, <<1, 10>>, <<1, 4>>}

DefaultWr == <<<<1, 4>>, <<1, 4>>>>

Scenarios ==
    [bytesize : {7}, wr : {DefaultWr}, rx : AllStreams]
    \cup [bytesize : ByteSizes,
          wr : {<<d1, d2>> : d1 \in Durations, d2 \in Durations},
          rx : {GoodIdentification \o DefaultBlock, <<>>}]

(* The sessions of a later read() on the same engine: how long its two     *)
(* writes take (one at once and the other longer than expected) and what   *)
(* the meter sends for it.                                                 *)
AgainDurations == {<<<<1, 4>>, <<0, 1>>>>, <<<<0, 1>>, <<1, 4>>>>}

AgainScenarios ==
    [wr : AgainDurations,
     rx : {GoodIdentification \o DefaultBlock, <<>>}]

(* The caller holds the control: no read() runs (before its first step,    *)
(* after its end or failure) or the sequence of read() waits at its yield  *)
(* of line 81, which is where YieldDataset leaves it.                      *)
Suspended ==
    /\ pc = "data_poll"
    /\ events # <<>>
    /\ events[Len(events)].op = "parse"

CallerHasControl ==
    pc \in {"start", "done", "failed"} \/ Suspended

(* Lines 50-52: close().  self.ser becomes None; what read() does with it  *)
(* afterwards fails with AttributeError (line 55 in a new call, line 160   *)
(* in a waiting sequence).  baudrate and bytesize stay what the port had.  *)
(* On an engine already closed, close() itself raises and changes nothing. *)
close ==
    /\ CallerHasControl
    /\ ser = "Serial"
    /\ ser' = "None"
    /\ UNCHANGED <<pc, baudrate, bytesize, ser_is_blocking, rx0, rx, wr,
                   events, identification_message, b, dataline, records,
                   error, expected_delay, calls, waiting>>

(* The sequence the caller leaves when it turns to another one: one that   *)
(* has ended or failed is exhausted, one that waits at its yield lives on  *)
(* with its locals.                                                        *)
Parked == IF pc \in {"done", "failed"} THEN <<>> ELSE <<Gen>>

(* The caller can turn to another sequence: the one that ran has ended,    *)
(* has failed or waits at its yield.                                       *)
CanTurn == pc \in {"done", "failed"} \/ Suspended

(* read() called again on the engine, lines 54-81 from the top: after the  *)
(* call before it ended or failed, or while its sequence waits at a yield; *)
(* that sequence then lives on beside the new one.  The bytes the call     *)
(* before left in the channel are still there and what the meter sends now *)
(* follows them.  The attributes of self (ser, ser_is_blocking) are what   *)
(* the call before left them; the locals of read() and the log start anew. *)
(* The call itself runs no line of read(), and the meter sends the bytes   *)
(* of the new session in answer to its sign-on request: the call is placed *)
(* right before the first step of the new sequence, after the steps the    *)
(* caller asks of the older sequences in between.                          *)
ReadAgain ==
    /\ CanTurn
    /\ calls < MaxCalls
    /\ calls' = calls + 1
    /\ waiting' = waiting \o Parked
    /\ \E sc \in AgainScenarios :
          /\ wr' = sc.wr
          /\ rx0' = rx \o sc.rx
          /\ rx' = rx \o sc.rx
    /\ pc' = "start"
    /\ events' = <<>>
    /\ identification_message' = NoIdentification
    /\ b' = <<>>
    /\ dataline' = <<>>
    /\ records' = <<>>
    /\ error' = "none"
    /\ expected_delay' = <<0, 1>>
    /\ UNCHANGED <<ser, baudrate, bytesize, ser_is_blocking>>

RemoveAt(s, i) == SubSeq(s, 1, i - 1) \o SubSeq(s, i + 1, Len(s))

(* The caller goes back to a sequence it holds and asks it for its next    *)
(* item: the sequence runs on from its yield with its own locals, line 160 *)
(* first, on the one port and with the attributes of self as they are now. *)
(* The sequence the caller leaves is held in its place.                    *)
Resume ==
    /\ CanTurn
    /\ \E i \in 1..Len(waiting) :
          LET s == PollStep(waiting[i]) IN
          /\ waiting' = RemoveAt(waiting, i) \o Parked
          /\ SetGen(s.gen)
          /\ rx' = s.rest
    /\ UNCHANGED <<calls, ser, baudrate, bytesize, ser_is_blocking>>

Next ==
    \/ ReadStart
    \/ ReadIdentification
    \/ WriteHandshake
    \/ ReadDataStart
    \/ DataTest
    \/ YieldDataset
    \/ DataPoll
    \/ Trailer
    \/ close
    \/ ReadAgain
    \/ Resume

Init ==
    /\ \E sc \in Scenarios :
          /\ bytesize = sc.bytesize
          /\ wr = sc.wr
          /\ rx0 = sc.rx
          /\ rx = sc.rx
    /\ pc = "start"
    /\ ser = "Serial"
    /\ baudrate = 300
    /\ ser_is_blocking = TRUE
    /\ events = <<>>
    /\ identification_message = NoIdentification
    /\ b = <<>>
    /\ dataline = <<>>
    /\ records = <<>>
    /\ error = "none"
    /\ expected_delay = <<0, 1>>
    /\ calls = 1
    /\ waiting = <<>>

Spec == Init /\ [][Next]_vars

(* The sessions of a silent meter, and of the identification followed by   *)
(* an STX and by at most MaxShort items out of '!', ETX and a timeout, or  *)
(* by a whole data block.                                                  *)
LiveStreams ==
    {<<>>, <<TO>>}
    \cup {GoodIdentification \o <<ctrl_CTX>> \o tl :
             tl \in SeqsUpTo({ctrl_EOF, ctrl_ETX, TO}, MaxShort)}
    \cup {GoodIdentification \o DefaultBlock}

LiveInit ==
    /\ Init
    /\ bytesize = 7
    /\ wr = DefaultWr
    /\ rx0 \in LiveStreams

(* The caller keeps consuming the sequence and the interpreter keeps       *)
(* running: a step that can be taken is taken.                             *)
FairSpec == LiveInit /\ [][Next]_vars /\ WF_vars(Next)

----------------------------------------------------------------------------
(* What the claims speak of *)

(* The indices of the events of one kind, and the k-th of them. *)
OpsAt(op) == {i \in DOMAIN events : events[i].op = op}

Nth(S, k) == CHOOSE i \in S : Cardinality({j \in S : j < i}) = k - 1

(* The identification line as the Line Reader returned it. *)
IdentLine == events[Nth(OpsAt("readline"), 1)].val

(* read() was called on an engine whose channel close() had released: it   *)
(* failed at line 55, before anything was written or read.                 *)
ClosedAtCall == pc = "failed" /\ error = "AttributeError" /\ events = <<>>

IdentRead == pc \notin {"start", "identification"} /\ ~ClosedAtCall

Decoded == identification_message # NoIdentification

StartsWith(s, prefix) ==
    Len(s) >= Len(prefix) /\ SubSeq(s, 1, Len(prefix)) = prefix

(* C1: in a session whose identification decodes, the order is: baud rate  *)
(* 300, sign-on written, identification line read, ack written, a sleep of *)
(* at least 200 ms, baud rate set to the negotiated value, first byte of   *)
(* the data block read; the baud rate is assigned exactly these two times, *)
(* and once only in a session whose identification does not decode.        *)
C1_Order ==
    LET bauds == OpsAt("baud")
        writes == OpsAt("write")
    IN  /\ (pc # "start" /\ ~ClosedAtCall) => Cardinality(bauds) >= 1
        /\ Cardinality(bauds) <= 2
        /\ (~Decoded \/ pc = "handshake") => Cardinality(bauds) <= 1
        /\ (Decoded /\ pc # "handshake") =>
              LET b1 == Nth(bauds, 1)
                  b2 == Nth(bauds, 2)
                  w1 == Nth(writes, 1)
                  w2 == Nth(writes, 2)
                  rl == Nth(OpsAt("readline"), 1)
              IN  /\ Cardinality(bauds) = 2
                  /\ Cardinality(writes) = 2
                  /\ events[b1].val = <<300>>
                  /\ events[w1].val = <<47, 63, 33, 13, 10>>
                  /\ events[w2].val[1] = 6
                  /\ events[b2].val = <<identification_message.baudrate>>
                  /\ b1 < w1 /\ w1 < rl /\ rl < w2 /\ w2 < b2
                  /\ \E s \in OpsAt("sleep") :
                        /\ w2 < s /\ s < b2
                        /\ ~RatLT(events[s].val, <<200, 1000>>)
                  /\ \A r \in OpsAt("read") : b2 < r
                  /\ pc # "data_start" => OpsAt("read") # {}

C1_Witness ==
    /\ pc = "done" /\ Len(records) = 1 /\ baudrate = 9600
    /\ Cardinality(OpsAt("sleep")) = 3

(* C2: for a line of at least 6 bytes that starts with '/' and has no      *)
(* escape character, whose baud-id c is a hexadecimal digit, the baud rate *)
(* is the table's entry for c and the mode is B for 'A' < c <= 'I', C for  *)
(* '0' < c <= '9', A otherwise.                                            *)
C2_Table ==
    <<300, 600, 1200, 2400, 4800, 9600, 19200, 0, 0, 0,
      600, 1200, 2400, 4800, 9600, 19200>>

C2_Hex(c) ==
    CASE c \in 48..57 -> c - 48
      [] c \in 65..70 -> c - 55
      [] c \in 97..102 -> c - 87
      [] OTHER -> 16

C2_Mode(c) ==
    IF 65 < c /\ c <= 73 THEN "B" ELSE IF 48 < c /\ c <= 57 THEN "C" ELSE "A"

C2_BaudAndMode ==
    (/\ IdentRead
     /\ Len(IdentLine) >= 6
     /\ IdentLine[1] = 47
     /\ IdentLine[6] # 92
     /\ C2_Hex(IdentLine[5]) < 16)
    => /\ identification_message.baudrate = C2_Table[C2_Hex(IdentLine[5]) + 1]
       /\ identification_message.protocol_mode = C2_Mode(IdentLine[5])

C2_Witness ==
    /\ pc = "handshake"
    /\ IdentLine[5] = 57
    /\ IdentLine[6] # 92
    /\ identification_message.baudrate = 0
    /\ identification_message.protocol_mode = "C"

(* C3, as stated: the identification /XYZ5ABC123 CR LF decodes to protocol *)
(* mode A and baud rate 9600.                                              *)
C3_Answer == <<47, 88, 89, 90, 53, 65, 66, 67, 49, 50, 51, 13, 10>>

C3_Original ==
    (IdentRead /\ StartsWith(rx0, C3_Answer))
    => /\ identification_message.protocol_mode = "A"
       /\ identification_message.baudrate = 9600

(* C3, amended: the identification /XYZ5ABC123 CR LF decodes to protocol   *)
(* mode C and baud rate 9600.                                              *)
C3_Amended ==
    (IdentRead /\ StartsWith(rx0, C3_Answer))
    => /\ identification_message.protocol_mode = "C"
       /\ identification_message.baudrate = 9600

C3_Witness ==
    /\ pc = "handshake"
    /\ StartsWith(rx0, C3_Answer)
    /\ identification_message.baudrate_identification = 53

(* C4: the channel is never switched to an invalid baud rate: a baud-id    *)
(* that is no hexadecimal digit, or a reserved one (7, 8, 9), makes read() *)
(* fail with InvalidMessageError, and the baud rate is never assigned 0.   *)
C4_NoInvalidBaud ==
    /\ \A i \in OpsAt("baud") : events[i].val # <<0>>
    /\ (/\ IdentRead
        /\ Len(IdentLine) >= 6
        /\ IdentLine[1] = 47
        /\ C2_Hex(IdentLine[5]) \in {7, 8, 9, 16})
       => (pc = "failed" /\ error = "InvalidMessageError")

(* C5: reading the identification fails with TimeoutError on an empty      *)
(* line; else, on a first byte that is not '/', with InvalidMessageError   *)
(* after the channel was read until a read returned nothing; else, on a    *)
(* line shorter than 6 bytes, with InvalidMessageError.                    *)
C5_Consumed == Len(rx0) - Len(rx)

(* The last item consumed that is a byte: the one before the timeout that  *)
(* ended the reading, or the last one sent.                                *)
C5_LastByte ==
    IF rx0[C5_Consumed] = -1 THEN C5_Consumed - 1 ELSE C5_Consumed

C5_Failures ==
    IdentRead =>
        /\ Len(IdentLine) = 0 =>
              /\ pc = "failed" /\ error = "TimeoutException"
              /\ events[Len(events)].op = "readline"
        /\ (Len(IdentLine) > 0 /\ IdentLine[1] # 47) =>
              /\ pc = "failed" /\ error = "InvalidMessageError"
              /\ events[Len(events)].op = "drain"
              /\ (rx = <<>> \/ rx0[C5_Consumed] = -1)
              /\ events[Len(events)].val
                    = SubSeq(rx0, C5_LastByte - Len(events[Len(events)].val) + 1,
                             C5_LastByte)
        /\ (Len(IdentLine) \in 1..5 /\ IdentLine[1] = 47) =>
              /\ pc = "failed" /\ error = "InvalidMessageError"
              /\ events[Len(events)].op = "readline"

C5_Witness ==
    /\ pc = "failed" /\ error = "InvalidMessageError"
    /\ events[Len(events)].op = "drain"
    /\ Len(events[Len(events)].val) = 2
    /\ rx # <<>>
    /\ Len(IdentLine) = 6

(* C6: a data block of STX, N well-formed dataset lines each ended by      *)
(* CR LF, '!', two filler bytes, ETX and a block check character yields    *)
(* exactly N records, the i-th the parse of the i-th line, and then ends   *)
(* without error.                                                          *)
C6_Line1 == <<49, 46, 56, 46, 48, 40, 48, 48, 49, 53, 46, 53, 53, 55,
              42, 107, 87, 104, 41>>

C6_Line2 == <<49, 46, 56, 46, 48, 40, 49, 53, 46, 53, 53, 42, 107, 87, 104, 41>>

C6_Line3 == <<40, 49, 46, 53, 41>>

C6_Lines == {C6_Line1, C6_Line2, C6_Line3}

C6_Record(l) ==
    CASE l = C6_Line1 -> [id |-> <<49, 46, 56, 46, 48>>,
                          value |-> [coef |-> 15557, exp |-> -3],
                          unit |-> <<107, 87, 104>>]
      [] l = C6_Line2 -> [id |-> <<49, 46, 56, 46, 48>>,
                          value |-> [coef |-> 1555, exp |-> -2],
                          unit |-> <<107, 87, 104>>]
      [] l = C6_Line3 -> [id |-> <<>>, value |-> [coef |-> 15, exp |-> -1],
                          unit |-> None]

RECURSIVE C6_Encode(_)
C6_Encode(ls) ==
    IF ls = <<>> THEN <<33, 13, 10, 3, 65>>
    ELSE Head(ls) \o <<13, 10>> \o C6_Encode(Tail(ls))

C6_RoundTrip ==
    \A ls \in SeqsUpTo(C6_Lines, MaxLines) :
        (rx0 = C3_Answer \o <<2>> \o C6_Encode(ls) /\ ser = "Serial")
        => /\ pc # "failed"
           /\ pc = "done" => records = [i \in 1..Len(ls) |-> C6_Record(ls[i])]

(* C7: consuming the sequence always terminates: once the meter stops      *)
(* sending, the Data Block Reader ends the sequence or fails.              *)
C7_Terminates == <>(pc \in {"done", "failed"})

(* C8: when the k-th raw line fails to parse, read() fails there with      *)
(* InvalidMessageError, the caller holding the records of the k - 1 lines  *)
(* before it.  The line that failed is the last one parsed, and it gave no  *)
(* record.                                                                 *)
C8_ParseFailure ==
    (/\ pc = "failed"
     /\ events # <<>>
     /\ events[Len(events)].op = "parse"
     /\ Len(records) < Cardinality(OpsAt("parse")))
    => /\ error = "InvalidMessageError"
       /\ Len(records) = Cardinality(OpsAt("parse")) - 1

(* C9: the Dataset Parser returns a record only for a line that in its     *)
(* entirety is ID(VALUE[*UNIT]), ID and UNIT free of '(', ')', '/', '!';   *)
(* every other line fails with InvalidMessageError.                        *)
C9_Free(s) == \A i \in 1..Len(s) : s[i] \notin {40, 41, 47, 33}

C9_EntireForm(line) ==
    \E p \in 1..Len(line) : \E r \in (p + 2)..Len(line) :
        /\ line[p] = 40
        /\ C9_Free(SubSeq(line, 1, p - 1))
        /\ line[Len(line)] = 41
        /\ \/ r = Len(line)
           \/ /\ line[r] = 42
              /\ r + 1 < Len(line)
              /\ C9_Free(SubSeq(line, r + 1, Len(line) - 1))

C9_WholeLine ==
    events # <<>> /\ events[Len(events)].op = "parse"
    => \/ C9_EntireForm(dataline)
       \/ (pc = "failed" /\ error = "InvalidMessageError")

(* C10: the expected duration of a write of n bytes is                     *)
(* n * (data_bits + 3) / baud_rate, at the sign-on and at the handshake,   *)
(* the channel being at 300 baud at both.                                  *)
C10_Duration ==
    pc \in {"identification", "data_start"}
    => RatEq(expected_delay,
             <<Len(events[Nth(OpsAt("write"), Cardinality(OpsAt("write")))].val)
                  * (bytesize + 3),
               300>>)

(* C11: a sign-on write that returns in less than the expected duration   *)
(* is followed by a sleep of the remainder and marks the channel           *)
(* non-blocking, and every later write of that session is followed by a    *)
(* sleep of max(0, expected - elapsed); after a sign-on write that takes   *)
(* at least the expected duration no write of that session is followed by  *)
(* a compensating sleep.                                                   *)
C11_SignOnEarly(log) == Len(log) >= 3 /\ log[3].op = "sleep"

C11_AfterHandshake(log) ==
    LET w == Nth({i \in DOMAIN log : log[i].op = "write"}, 2) IN
    SubSeq(log, w + 1, Len(log))

C11_SignOnStep ==
    (pc = "start" /\ pc' = "identification")
    => IF RatLT(Head(wr), expected_delay')
       THEN /\ ser_is_blocking' = FALSE
            /\ C11_SignOnEarly(events')
            /\ events'[3].val = RatSub(expected_delay', Head(wr))
       ELSE ~C11_SignOnEarly(events')

C11_HandshakeStep ==
    (pc = "handshake" /\ pc' = "data_start")
    => IF C11_SignOnEarly(events) /\ RatLT(Head(wr), expected_delay')
       THEN C11_AfterHandshake(events')
               = <<Event("sleep", RatSub(expected_delay', Head(wr))),
                   Event("sleep", min_reaction_time),
                   Event("baud", <<baudrate'>>)>>
       ELSE C11_AfterHandshake(events')
               = <<Event("sleep", min_reaction_time),
                   Event("baud", <<baudrate'>>)>>

C11_Compensation == [][C11_SignOnStep /\ C11_HandshakeStep]_vars

(* C12: session state does not persist across read() calls: in a call     *)
(* whose sign-on write takes at least the expected duration no             *)
(* compensating sleep follows the handshake write, whatever an earlier     *)
(* call on the engine detected.                                            *)
C12_NoPersistence ==
    [][(pc = "handshake" /\ pc' = "data_start" /\ ~C11_SignOnEarly(events))
       => C11_AfterHandshake(events')
             = <<Event("sleep", min_reaction_time),
                 Event("baud", <<baudrate'>>)>>]_vars

(* C13: the Line Reader returns at the first point at which the buffer,    *)
(* the seeded prefix included, ends with CR LF, returns the buffer without *)
(* that CR LF, and consumes no byte past it, whatever bytes come before.   *)
C13_LineEnd(s) ==
    LET K == {k \in 1..(Len(s) - 1) :
                 /\ s[k] = CR /\ s[k + 1] = LF
                 /\ \A i \in 1..(k + 1) : s[i] # TO}
    IN  IF K = {} THEN 0 ELSE CHOOSE k \in K : \A o \in K : k <= o

C13_IdentStep ==
    (pc = "identification" /\ pc' # "identification" /\ C13_LineEnd(rx) > 0)
    => /\ events'[Len(events) + 1]
             = Event("readline", SubSeq(rx, 1, C13_LineEnd(rx) - 1))
       /\ Len(events') = Len(events) + 1
             => rx' = SubSeq(rx, C13_LineEnd(rx) + 2, Len(rx))

C13_DataStep ==
    (pc = "data_test" /\ pc' = "yield" /\ C13_LineEnd(b \o rx) > 0)
    => /\ dataline' = SubSeq(b \o rx, 1, C13_LineEnd(b \o rx) - 1)
       /\ rx' = SubSeq(b \o rx, C13_LineEnd(b \o rx) + 2, Len(b \o rx))

C13_FirstCRLF == [][C13_IdentStep /\ C13_DataStep]_vars

(* C14, as stated: the Line Reader fails with TimeoutError when the first  *)
(* read returns nothing and no bytes have been accumulated.                *)
C14_FirstTO(s) ==
    IF \E i \in 1..Len(s) : s[i] = TO
    THEN CHOOSE i \in 1..Len(s) : s[i] = TO /\ \A j \in 1..(i - 1) : s[j] # TO
    ELSE Len(s) + 1

C14_Original ==
    (pc = "identification" /\ C14_FirstTO(rx) = 1)
    => ReadDataline(<<>>, rx).error = "TimeoutException"

(* C14, amended: the Line Reader never fails.  When the first read returns *)
(* nothing and no bytes have been accumulated it returns the empty buffer, *)
(* and it is the Identification Parser, its only caller without a prefix,  *)
(* that fails with TimeoutError on an empty line; at a timeout after at    *)
(* least one byte it returns the accumulated bytes, and the session goes   *)
(* on with that line.                                                      *)
C14_Accumulated(p, s) == p \o SubSeq(s, 1, C14_FirstTO(s) - 1)

(* line and rest are the accumulated bytes and what follows the timeout,   *)
(* or the bytes before a CR LF of the accumulated bytes and what follows   *)
(* it; the former when the accumulated bytes hold no CR LF.                *)
C14_Returned(p, s, line, rest, seen) ==
    LET acc == C14_Accumulated(p, s) IN
    \/ /\ line = acc
       /\ seen => rest = SubSeq(s, C14_FirstTO(s) + 1, Len(s))
    \/ \E k \in 1..(Len(acc) - 1) :
          /\ acc[k] = CR /\ acc[k + 1] = LF
          /\ line = SubSeq(acc, 1, k - 1)
          /\ seen => rest = SubSeq(s, k + 2 - Len(p), Len(s))

C14_IdentStep ==
    (pc = "identification" /\ pc' # "identification")
    => /\ ReadDataline(<<>>, rx).error = "none"
       /\ C14_Returned(<<>>, rx, events'[Len(events) + 1].val, rx',
                       Len(events') = Len(events) + 1)
       /\ C14_FirstTO(rx) = 1 => events'[Len(events) + 1].val = <<>>
       /\ IF events'[Len(events) + 1].val = <<>>
          THEN pc' = "failed" /\ error' = "TimeoutException"
          ELSE error' # "TimeoutException"

C14_DataStep ==
    (pc = "data_test" /\ pc' = "yield")
    => /\ ReadDataline(b, rx).error = "none"
       /\ C14_Returned(b, rx, dataline', rx', TRUE)
       /\ error' = "none"

C14_Amended == [][C14_IdentStep /\ C14_DataStep]_vars

C14_Witness ==
    /\ pc = "yield"
    /\ dataline = DefaultLine
    /\ rx0[Len(rx0) - Len(rx)] = TO
    /\ events[Len(events)] = Event("readline", DefaultLine)

(* C15: when byte 5 of the identification line is the escape character    *)
(* '\', a line shorter than 8 bytes fails with InvalidMessageError, and a  *)
(* line that decodes has protocol mode E, whatever its baud-id, and the    *)
(* identification string from byte 7 on.                                   *)
C15_Escape ==
    (/\ IdentRead
     /\ Len(IdentLine) >= 6
     /\ IdentLine[1] = 47
     /\ IdentLine[6] = 92)
    => IF Len(IdentLine) < 8
       THEN pc = "failed" /\ error = "InvalidMessageError"
       ELSE Decoded
            => /\ identification_message.protocol_mode = "E"
               /\ identification_message.identification
                     = SubSeq(IdentLine, 8, Len(IdentLine))

(* C16: the handshake ack is written at most once per session, only after  *)
(* the identification line has been decoded, and is the six bytes 0x06 '0' *)
(* <baud-id> '0' CR LF with the baud-id the meter sent; when reading or    *)
(* decoding the identification fails nothing is written after the sign-on  *)
(* request and the baud rate stays 300.                                    *)
C16_Ack ==
    LET writes == OpsAt("write") IN
    /\ Cardinality(writes) <= 2
    /\ (pc # "start" /\ ~ClosedAtCall)
          => /\ Cardinality(writes) >= 1
             /\ events[Nth(writes, 1)].val = <<47, 63, 33, 13, 10>>
    /\ Cardinality(writes) = 2
          => /\ Decoded
             /\ Nth(OpsAt("readline"), 1) < Nth(writes, 2)
             /\ events[Nth(writes, 2)].val
                   = <<6, 48, IdentLine[5], 48, 13, 10>>
    /\ (IdentRead /\ ~Decoded)
          => /\ pc = "failed"
             /\ Cardinality(writes) = 1
             /\ baudrate = 300
             /\ \A i \in OpsAt("baud") : events[i].val = <<300>>

C16_Witness ==
    /\ pc = "data_start"
    /\ Cardinality(OpsAt("write")) = 2
    /\ events[Nth(OpsAt("write"), 2)].val = <<6, 48, 54, 48, 13, 10>>
    /\ IdentLine[5] = 54

(* C17: after the baud switch the Data Block Reader reads one byte before  *)
(* yielding anything: when the channel returns nothing it fails with       *)
(* TimeoutError, when the byte is not STX it fails with                    *)
(* InvalidMessageError, and in both cases no raw line is yielded and no    *)
(* further byte is read.                                                   *)
C17_Nothing(s) == s = <<>> \/ s[1] = TO

C17_FirstByteStep ==
    pc = "data_start"
    => /\ events[Len(events)].op = "baud"
       /\ OpsAt("parse") = {} /\ records = <<>>
       /\ IF C17_Nothing(rx)
          THEN /\ pc' = "failed" /\ error' = "TimeoutException"
               /\ events' = Append(events, Event("read", <<>>))
               /\ rx' = SubSeq(rx, 2, Len(rx))
               /\ records' = <<>>
          ELSE IF rx[1] # 2
          THEN /\ pc' = "failed" /\ error' = "InvalidMessageError"
               /\ events' = Append(events, Event("read", <<rx[1]>>))
               /\ rx' = SubSeq(rx, 2, Len(rx))
               /\ records' = <<>>
          ELSE /\ pc' = "data_test" /\ error' = "none"
               /\ events'[Len(events) + 1] = Event("read", <<2>>)

C17_FirstByte ==
    [][/\ C17_FirstByteStep
       /\ (pc = "failed" /\ calls' = calls /\ waiting' = waiting)
          => rx' = rx /\ events' = events /\ records' = records]_vars

C17_Witness ==
    /\ pc = "failed" /\ error = "TimeoutException"
    /\ Cardinality(OpsAt("baud")) = 2
    /\ events[Len(events)] = Event("read", <<>>)
    /\ rx = <<ctrl_CTX>>

(* C18: after the end-of-block marker the Data Block Reader reads two      *)
(* filler bytes, then one byte that must be ETX, or else it fails with     *)
(* InvalidMessageError, then the block check character; the outcome of     *)
(* read() is the same for every value of the block check character.        *)
C18_Item(s, i) == IF i <= Len(s) /\ s[i] # TO THEN <<s[i]>> ELSE <<>>

C18_Reads(s, n) == [i \in 1..n |-> Event("read", C18_Item(s, i))]

C18_TrailerStep ==
    pc = "trailer"
    => /\ b = <<33>>
       /\ records' = records
       /\ IF C18_Item(rx, 3) = <<>>
          THEN pc' = "failed"
          ELSE IF C18_Item(rx, 3) # <<3>>
          THEN /\ pc' = "failed" /\ error' = "InvalidMessageError"
               /\ events' = events \o C18_Reads(rx, 3)
               /\ rx' = SubSeq(rx, 4, Len(rx))
          ELSE /\ pc' = "done" /\ error' = "none"
               /\ events' = events \o C18_Reads(rx, 4)
               /\ rx' = SubSeq(rx, 5, Len(rx))
               /\ \A x \in (0..255) \cup {TO} :
                     ReadTrailer(SubSeq(rx, 1, 3) \o <<x>>).error = "none"

C18_Trailer == [][C18_TrailerStep]_vars

C18_Witness ==
    /\ pc = "done" /\ error = "none"
    /\ Len(records) = 1
    /\ events[Len(events)] = Event("read", <<ctrl_ETX>>)
    /\ events[Len(events) - 1] = Event("read", <<ctrl_ETX>>)

(* C19: every failure of read(), for every byte stream and every point at  *)
(* which the channel can time out, is a TimeoutError or an                 *)
(* InvalidMessageError.  The failures are those the meter and the channel  *)
(* bring about, on an engine the caller has not closed.                    *)
C19_ErrorKinds ==
    /\ ser = "Serial"
          => error \in {"none", "TimeoutException", "InvalidMessageError"}
    /\ pc = "failed" <=> error # "none"

(* C20: for an identification line without escape character the decoded   *)
(* identification field is what the meter sent between the baud-id         *)
(* character and the CR LF that ends the line.                             *)
C20_Identification ==
    (Decoded /\ IdentLine[6] # 92)
    => identification_message.identification
          = SubSeq(IdentLine, 6, Len(IdentLine))

====
